---- MODULE Spec2Model ----
(***************************************************************************)
(* Kotlin bindings generator of uniffi_bindgen: the language oracle, the   *)
(* object and callback-interface code types, the filter layer, the config  *)
(* resolution, and the runtime constructs the generated code relies on     *)
(* (object handle disposal, callback dispatch table).                      *)
(***************************************************************************)
EXTENDS Integers, Sequences, FiniteSets, TLC

VARIABLES
    \* generated object handle (ObjectTemplate.kt)
    wasDestroyed, destroyCalls, destroyers, winner, hpc, fires,
    \* generated callback dispatch table (CallbackInterfaceTemplate.kt)
    lockHolder, table, applied, replaced, tpc, top, tlocal, lookups,
    \* oracle lookups of one generation pass
    finds,
    \* last call into the generator and what it returned
    call, result, found

handleVars == <<wasDestroyed, destroyCalls, destroyers, winner, hpc, fires>>
tableVars  == <<lockHolder, table, applied, replaced, tpc, top, tlocal, lookups>>
oracleVars == <<finds>>
callVars   == <<call, result, found>>
vars == <<handleVars, tableVars, oracleVars, callVars>>

None == "<none>"

-----------------------------------------------------------------------------
(* Object handle: explicit disposal and automatic reclamation.             *)

MaxFires == 2

Handles  == {"h1", "h2"}
Triggers == {"close", "finalize"}

InitHandleVars ==
    /\ wasDestroyed = [h \in Handles |-> FALSE]
    /\ destroyCalls = [h \in Handles |-> 0]
    /\ destroyers   = [h \in Handles |-> {}]
    /\ winner       = [h \in Handles |-> None]
    /\ hpc          = [h \in Handles |-> [t \in Triggers |-> "idle"]]
    /\ fires        = [h \in Handles |-> [t \in Triggers |-> 0]]

\* A trigger (application close() or the runtime's reclamation) starts
\* the disposal path of handle h.
Fire(h, t) ==
    /\ hpc[h][t] = "idle"
    /\ fires[h][t] < MaxFires
    /\ fires' = [fires EXCEPT ![h][t] = @ + 1]
    /\ hpc' = [hpc EXCEPT ![h][t] = "cas"]
    /\ UNCHANGED <<wasDestroyed, destroyCalls, destroyers, winner>>

\* The flag is set without looking at what it was: every trigger goes on
\* to the native call.
SetWithoutCheck(h, t) ==
    /\ hpc[h][t] = "cas"
    /\ wasDestroyed' = [wasDestroyed EXCEPT ![h] = TRUE]
    /\ winner' = [winner EXCEPT ![h] = IF wasDestroyed[h] THEN @ ELSE t]
    /\ hpc' = [hpc EXCEPT ![h][t] = "call"]
    /\ UNCHANGED <<destroyCalls, destroyers, fires>>

\* wasDestroyed.compareAndSet(false, true): one indivisible step.
CompareAndSet(h, t) ==
    /\ hpc[h][t] = "cas"
    /\ IF wasDestroyed[h] = FALSE
         THEN /\ wasDestroyed' = [wasDestroyed EXCEPT ![h] = TRUE]
              /\ winner' = [winner EXCEPT ![h] = t]
              /\ hpc' = [hpc EXCEPT ![h][t] = "call"]
         ELSE /\ hpc' = [hpc EXCEPT ![h][t] = "idle"]
              /\ UNCHANGED <<wasDestroyed, winner>>
    /\ UNCHANGED <<destroyCalls, destroyers, fires>>

\* The native destroy operation, counted.
NativeDestroy(h, t) ==
    /\ hpc[h][t] = "call"
    /\ destroyCalls' = [destroyCalls EXCEPT ![h] = @ + 1]
    /\ destroyers' = [destroyers EXCEPT ![h] = @ \cup {t}]
    /\ hpc' = [hpc EXCEPT ![h][t] = "idle"]
    /\ UNCHANGED <<wasDestroyed, winner, fires>>

-----------------------------------------------------------------------------
(* Callback dispatch table guarded by its lock.                            *)

Ids        == {"id1", "id2"}
Impls      == {"implA", "implB"}
AppThreads == {"app1", "app2"}
NativeThreads == {"native"}
Threads    == AppThreads \cup NativeThreads
Pending    == "<pending>"

EmptyTable == [i \in Ids |-> None]
NoOp       == [kind |-> "none", id |-> None, impl |-> None]
NoLookup   == [id |-> None, got |-> None, want |-> None]

AppOps ==
    {[kind |-> "register", id |-> i, impl |-> m] : i \in Ids, m \in Impls}
    \cup {[kind |-> "deregister", id |-> i, impl |-> None] : i \in Ids}
NativeOps == {[kind |-> "lookup", id |-> i, impl |-> None] : i \in Ids}

InitTableVars ==
    /\ lockHolder = None
    /\ table   = EmptyTable
    /\ applied = EmptyTable
    /\ replaced = EmptyTable
    /\ tpc     = [t \in Threads |-> "idle"]
    /\ top     = [t \in Threads |-> NoOp]
    /\ tlocal  = [t \in Threads |-> EmptyTable]
    /\ lookups = [t \in NativeThreads |-> NoLookup]

\* A thread starts an operation on the table: application threads register
\* and deregister, the native library's thread looks an identity up.
Begin(t, op) ==
    /\ tpc[t] = "idle"
    /\ op \in (IF t \in AppThreads THEN AppOps ELSE NativeOps)
    /\ top' = [top EXCEPT ![t] = op]
    /\ tpc' = [tpc EXCEPT ![t] = "acquire"]
    /\ UNCHANGED <<lockHolder, table, applied, replaced, tlocal, lookups>>

\* Entering the table's critical section without taking the lock.
EnterUnlocked(t) ==
    /\ tpc[t] = "acquire"
    /\ tpc' = [tpc EXCEPT ![t] = "read"]
    /\ UNCHANGED <<lockHolder, table, applied, replaced, top, tlocal, lookups>>

\* lock.withLock { ... }: entry.
Acquire(t) ==
    /\ tpc[t] = "acquire"
    /\ lockHolder = None
    /\ lockHolder' = t
    /\ tpc' = [tpc EXCEPT ![t] = "read"]
    /\ UNCHANGED <<table, applied, replaced, top, tlocal, lookups>>

\* First step of a registration or deregistration: read the table.
UpdateRead(t) ==
    /\ tpc[t] = "read"
    /\ top[t].kind \in {"register", "deregister"}
    /\ tlocal' = [tlocal EXCEPT ![t] = table]
    /\ tpc' = [tpc EXCEPT ![t] = IF top[t].kind = "register"
                                    THEN "reserve" ELSE "store"]
    /\ UNCHANGED <<lockHolder, table, applied, replaced, top, lookups>>

\* A registration reserves the slot of its identity before the
\* implementation is stored: the partially-completed registration.
RegisterReserve(t) ==
    /\ tpc[t] = "reserve"
    /\ table' = [tlocal[t] EXCEPT ![top[t].id] = Pending]
    /\ tpc' = [tpc EXCEPT ![t] = "store"]
    /\ UNCHANGED <<lockHolder, applied, replaced, top, tlocal, lookups>>

\* Last step of a registration (the implementation replaces whatever the
\* identity mapped to) or of a deregistration (the mapping is removed).
UpdateStore(t) ==
    /\ tpc[t] = "store"
    /\ table' = IF top[t].kind = "register"
                  THEN [table EXCEPT ![top[t].id] = top[t].impl]
                  ELSE [tlocal[t] EXCEPT ![top[t].id] = None]
    /\ applied' = [applied EXCEPT ![top[t].id] = top[t].impl]
    /\ replaced' = [replaced EXCEPT ![top[t].id] = applied[top[t].id]]
    /\ tpc' = [tpc EXCEPT ![t] = "release"]
    /\ UNCHANGED <<lockHolder, top, tlocal, lookups>>

\* A native-triggered lookup reads the mapping of its identity.
Lookup(t) ==
    /\ tpc[t] = "read"
    /\ top[t].kind = "lookup"
    /\ lookups' = [lookups EXCEPT ![t] =
                     [id |-> top[t].id, got |-> table[top[t].id],
                      want |-> applied[top[t].id]]]
    /\ tpc' = [tpc EXCEPT ![t] = "release"]
    /\ UNCHANGED <<lockHolder, table, applied, replaced, top, tlocal>>

\* lock.withLock { ... }: exit.
Release(t) ==
    /\ tpc[t] = "release"
    /\ lockHolder' = IF lockHolder = t THEN None ELSE lockHolder
    /\ tpc' = [tpc EXCEPT ![t] = "idle"]
    /\ top' = [top EXCEPT ![t] = NoOp]
    /\ tlocal' = [tlocal EXCEPT ![t] = EmptyTable]
    /\ UNCHANGED <<table, applied, replaced, lookups>>

-----------------------------------------------------------------------------
(* Strings.                                                                *)

Char(s, i) == SubSeq(s, i, i)

LowerAlpha == "abcdefghijklmnopqrstuvwxyz"
UpperAlpha == "ABCDEFGHIJKLMNOPQRSTUVWXYZ"

IsLower(c) == \E i \in 1..Len(LowerAlpha) : Char(LowerAlpha, i) = c
IsUpper(c) == \E i \in 1..Len(UpperAlpha) : Char(UpperAlpha, i) = c

ToUpper(c) ==
    IF IsLower(c)
      THEN Char(UpperAlpha, CHOOSE i \in 1..Len(LowerAlpha) : Char(LowerAlpha, i) = c)
      ELSE c

ToLower(c) ==
    IF IsUpper(c)
      THEN Char(LowerAlpha, CHOOSE i \in 1..Len(UpperAlpha) : Char(UpperAlpha, i) = c)
      ELSE c

RECURSIVE MapChars(_, _)
\* s with every character upper-cased (up = TRUE) or lower-cased.
MapChars(s, up) ==
    IF Len(s) = 0 THEN ""
    ELSE (IF up THEN ToUpper(Char(s, 1)) ELSE ToLower(Char(s, 1)))
         \o MapChars(SubSeq(s, 2, Len(s)), up)

uppercase(s) == MapChars(s, TRUE)
lowercase(s) == MapChars(s, FALSE)
capitalize(s) ==
    IF Len(s) = 0 THEN ""
    ELSE ToUpper(Char(s, 1)) \o lowercase(SubSeq(s, 2, Len(s)))

EndsWith(s, suffix) ==
    /\ Len(s) >= Len(suffix)
    /\ SubSeq(s, Len(s) - Len(suffix) + 1, Len(s)) = suffix

StartsWith(s, prefix) ==
    /\ Len(s) >= Len(prefix)
    /\ SubSeq(s, 1, Len(prefix)) = prefix

\* One word of a case conversion: "camel" capitalizes every word, "mixed"
\* lower-cases the first word and capitalizes the rest, "shouty" upper-cases
\* every word and joins the words with an underscore.
WithWord(style, w, first) ==
    CASE style = "camel"  -> capitalize(w)
      [] style = "mixed"  -> IF first THEN lowercase(w) ELSE capitalize(w)
      [] style = "shouty" -> (IF first THEN "" ELSE "_") \o uppercase(w)

RECURSIVE Transform(_, _, _, _, _, _, _)
\* heck's word splitting over one run of letters and underscores: position
\* i, start of the current word init, case mode of the previous character,
\* whether no word was emitted yet, and the output so far.
Transform(style, s, i, init, mode, first, out) ==
    IF i > Len(s) THEN out
    ELSE
      LET c == Char(s, i) IN
      IF c = "_"
        THEN Transform(style, s, i + 1, IF init = i THEN init + 1 ELSE init,
                       mode, first, out)
      ELSE IF i < Len(s)
        THEN
          LET next == Char(s, i + 1)
              next_mode == IF IsLower(c) THEN "Lowercase"
                           ELSE IF IsUpper(c) THEN "Uppercase" ELSE mode
          IN
          IF next = "_" \/ (next_mode = "Lowercase" /\ IsUpper(next))
            THEN Transform(style, s, i + 1, i + 1, "Boundary", FALSE,
                           out \o WithWord(style, SubSeq(s, init, i), first))
          ELSE IF mode = "Uppercase" /\ IsUpper(c) /\ IsLower(next)
            THEN Transform(style, s, i + 1, i, "Boundary", FALSE,
                           out \o WithWord(style, SubSeq(s, init, i - 1), first))
          ELSE Transform(style, s, i + 1, init, next_mode, first, out)
      ELSE out \o WithWord(style, SubSeq(s, init, Len(s)), first)

to_camel_case(s)        == Transform("camel", s, 1, 1, "Boundary", TRUE, "")
to_mixed_case(s)        == Transform("mixed", s, 1, 1, "Boundary", TRUE, "")
to_shouty_snake_case(s) == Transform("shouty", s, 1, 1, "Boundary", TRUE, "")

-----------------------------------------------------------------------------
(* Interface model: type identifiers, wire types, literals.                *)

MaxDepth == 1

Idents         == {"foo_bar", "HTTPServer"}
ValueNames     == {"my_value", "FooBar", "buf"}
Targets        == {"buf", "out_buf"}
PrimitiveKinds == {"Int32", "UInt8", "String"}

BaseTypes ==
    {[tag |-> "Primitive", kind |-> k] : k \in PrimitiveKinds}
    \cup {[tag |-> g, id |-> n] :
            g \in {"Record", "Enum", "Object", "CallbackInterface", "External"},
            n \in Idents}

RECURSIVE TypesUpTo(_)
\* The type identifiers nested at most d deep.
TypesUpTo(d) ==
    IF d = 0 THEN BaseTypes
    ELSE LET inner == TypesUpTo(d - 1) IN
         inner \cup {[tag |-> g, inner |-> t] :
                       g \in {"Optional", "Sequence", "Map"}, t \in inner}

Types == TypesUpTo(MaxDepth)

RECURSIVE TypeStr(_)
\* The Debug rendering of a type identifier.
TypeStr(t) ==
    CASE t.tag = "Primitive" -> t.kind
      [] t.tag \in {"Optional", "Sequence", "Map"} ->
           t.tag \o "(" \o TypeStr(t.inner) \o ")"
      [] OTHER -> t.tag \o "(" \o t.id \o ")"

FFITypes ==
    {"Int8", "UInt8", "Int16", "UInt16", "Int32", "UInt32", "Int64", "UInt64",
     "Float32", "Float64", "RustArcPtr", "RustBuffer", "ForeignBytes",
     "ForeignCallback"}

\* The literals that carry the type they are declared against, and the
\* ones that do not.
TypedLiterals ==
    {[tag |-> "Enum", value |-> v, type_ |-> t] :
        v \in {"first_variant"}, t \in Types}
    \cup {[tag |-> g, value |-> v, type_ |-> t] :
        g \in {"Int", "UInt"}, v \in {"7"}, t \in Types}
    \cup {[tag |-> "Float", value |-> v, type_ |-> t] :
        v \in {"1.5"}, t \in Types}
UntypedLiterals ==
    {[tag |-> "Boolean", value |-> v] : v \in {"true", "false"}}
    \cup {[tag |-> "String", value |-> v] : v \in {"hello"}}
    \cup {[tag |-> g, value |-> ""] : g \in {"EmptySequence", "EmptyMap", "Null"}}
Literals == TypedLiterals \cup UntypedLiterals

LiteralStr(lit) ==
    lit.tag \o "(" \o lit.value
    \o (IF lit \in TypedLiterals THEN ", " \o TypeStr(lit.type_) ELSE "") \o ")"

\* What a call returns: a value, an askama error, or the panic of
\* unreachable!().
Ok(v)       == [kind |-> "Ok", value |-> v]
Err(e)      == [kind |-> "Err", value |-> e]
Unreachable == [kind |-> "Unreachable", value |-> "internal error: entered unreachable code"]
Some(v)     == <<v>>
NoneOpt     == <<>>

-----------------------------------------------------------------------------
(* KotlinLanguageOracle: naming transforms and scalar labels.              *)

class_name(nm)   == to_camel_case(nm)
fn_name(nm)      == to_mixed_case(nm)
var_name(nm)     == to_mixed_case(nm)
enum_variant(nm) == to_shouty_snake_case(nm)

\* str::strip_suffix
strip_suffix(s, suffix) ==
    IF EndsWith(s, suffix)
      THEN Some(SubSeq(s, 1, Len(s) - Len(suffix)))
      ELSE NoneOpt

RECURSIVE ReplaceEveryError(_)
ReplaceEveryError(name) ==
    IF Len(name) = 0 THEN ""
    ELSE IF StartsWith(name, "Error")
      THEN "Exception" \o ReplaceEveryError(SubSeq(name, 6, Len(name)))
      ELSE Char(name, 1) \o ReplaceEveryError(SubSeq(name, 2, Len(name)))

\* Every "Error" of the name is replaced, not only the one it ends in.
exception_name_replacing_every(nm) == ReplaceEveryError(nm)

exception_name(nm) ==
    LET name == nm
        stripped == strip_suffix(name, "Error")
    IN  IF stripped = NoneOpt THEN name
        ELSE stripped[1] \o "Exception"

\* The unsigned wire types get Kotlin's unsigned scalars.
ffi_type_label_unsigned(ffi_type) ==
    CASE ffi_type = "Int8"   -> "Byte"
      [] ffi_type = "UInt8"  -> "UByte"
      [] ffi_type = "Int16"  -> "Short"
      [] ffi_type = "UInt16" -> "UShort"
      [] ffi_type = "Int32"  -> "Int"
      [] ffi_type = "UInt32" -> "UInt"
      [] ffi_type = "Int64"  -> "Long"
      [] ffi_type = "UInt64" -> "ULong"
      [] ffi_type = "Float32" -> "Float"
      [] ffi_type = "Float64" -> "Double"
      [] ffi_type = "RustArcPtr" -> "Pointer"
      [] ffi_type = "RustBuffer" -> "RustBuffer.ByValue"
      [] ffi_type = "ForeignBytes" -> "ForeignBytes.ByValue"
      [] ffi_type = "ForeignCallback" -> "ForeignCallback"

ffi_type_label(ffi_type) ==
    CASE ffi_type \in {"Int8", "UInt8"}   -> "Byte"
      [] ffi_type \in {"Int16", "UInt16"} -> "Short"
      [] ffi_type \in {"Int32", "UInt32"} -> "Int"
      [] ffi_type \in {"Int64", "UInt64"} -> "Long"
      [] ffi_type = "Float32" -> "Float"
      [] ffi_type = "Float64" -> "Double"
      [] ffi_type = "RustArcPtr" -> "Pointer"
      [] ffi_type = "RustBuffer" -> "RustBuffer.ByValue"
      [] ffi_type = "ForeignBytes" -> "ForeignBytes.ByValue"
      [] ffi_type = "ForeignCallback" -> "ForeignCallback"

-----------------------------------------------------------------------------
(* Code types.                                                             *)

ObjectCodeType_new(id)            == [kind |-> "ObjectCodeType", id |-> id]
CallbackInterfaceCodeType_new(id) == [kind |-> "CallbackInterfaceCodeType", id |-> id]
EnumCodeType_new(id)              == [kind |-> "EnumCodeType", id |-> id]
FallbackCodeType_new(type_)       == [kind |-> "FallbackCodeType", type_ |-> type_]

ObjectCodeType_type_label(self)     == class_name(self.id)
ObjectCodeType_canonical_name(self) == "Object" \o ObjectCodeType_type_label(self)

\* The object strategy renders the literal's value.
ObjectCodeType_literal_rendered(self, literal) == Ok(literal.value)

ObjectCodeType_literal(self, literal) == Unreachable
ObjectCodeType_lower(self, nm) == var_name(nm) \o ".lower()"
ObjectCodeType_write(self, nm, target) ==
    var_name(nm) \o ".write(" \o target \o ")"
ObjectCodeType_lift(self, nm) ==
    ObjectCodeType_type_label(self) \o ".lift(" \o nm \o ")"
ObjectCodeType_read(self, nm) ==
    ObjectCodeType_type_label(self) \o ".read(" \o nm \o ")"
ObjectCodeType_helper_code(self) ==
    Some("// Helper code for " \o ObjectCodeType_type_label(self)
         \o " class is found in ObjectTemplate.kt")
ObjectCodeType_import_code(self) ==
    Some(<<"java.util.concurrent.atomic.AtomicLong",
           "java.util.concurrent.atomic.AtomicBoolean">>)

CallbackInterfaceCodeType_type_label(self) == class_name(self.id)
CallbackInterfaceCodeType_canonical_name(self) ==
    "CallbackInterface" \o CallbackInterfaceCodeType_type_label(self)
CallbackInterfaceCodeType_internals(self) ==
    CallbackInterfaceCodeType_canonical_name(self) \o "Internals"
CallbackInterfaceCodeType_literal(self, literal) == Unreachable
CallbackInterfaceCodeType_lower(self, nm) ==
    CallbackInterfaceCodeType_internals(self) \o ".lower(" \o var_name(nm) \o ")"
CallbackInterfaceCodeType_write(self, nm, target) ==
    CallbackInterfaceCodeType_internals(self) \o ".write(" \o var_name(nm)
    \o ", " \o target \o ")"
CallbackInterfaceCodeType_lift(self, nm) ==
    CallbackInterfaceCodeType_internals(self) \o ".lift("
    \o CallbackInterfaceCodeType_type_label(self) \o ", " \o nm \o ")"
CallbackInterfaceCodeType_read(self, nm) ==
    CallbackInterfaceCodeType_internals(self) \o ".read("
    \o CallbackInterfaceCodeType_type_label(self) \o ", " \o nm \o ")"
CallbackInterfaceCodeType_helper_code(self) ==
    Some("// Helper code for " \o CallbackInterfaceCodeType_type_label(self)
         \o " callback interface is found in CallbackInterfaceTemplate.kt")

\* The enum and fallback strategies: stateless, their text a function of
\* the strategy and the arguments.
EnumCodeType_render(self, op, args) ==
    "<EnumCodeType(" \o self.id \o ")." \o op \o "(" \o args \o ")>"
FallbackCodeType_render(self, op, args) ==
    "<FallbackCodeType(" \o TypeStr(self.type_) \o ")." \o op \o "(" \o args \o ")>"
legacy_kt_literal_kt(literal) ==
    Ok("<legacy_kt::literal_kt(" \o LiteralStr(literal) \o ")>")

\* dyn CodeType: the call goes to the implementation of the strategy's kind.
type_label(ct) ==
    CASE ct.kind = "ObjectCodeType" -> ObjectCodeType_type_label(ct)
      [] ct.kind = "CallbackInterfaceCodeType" -> CallbackInterfaceCodeType_type_label(ct)
      [] ct.kind = "EnumCodeType" -> EnumCodeType_render(ct, "type_label", "")
      [] ct.kind = "FallbackCodeType" -> FallbackCodeType_render(ct, "type_label", "")
lower(ct, nm) ==
    CASE ct.kind = "ObjectCodeType" -> ObjectCodeType_lower(ct, nm)
      [] ct.kind = "CallbackInterfaceCodeType" -> CallbackInterfaceCodeType_lower(ct, nm)
      [] ct.kind = "EnumCodeType" -> EnumCodeType_render(ct, "lower", nm)
      [] ct.kind = "FallbackCodeType" -> FallbackCodeType_render(ct, "lower", nm)
write(ct, nm, target) ==
    CASE ct.kind = "ObjectCodeType" -> ObjectCodeType_write(ct, nm, target)
      [] ct.kind = "CallbackInterfaceCodeType" -> CallbackInterfaceCodeType_write(ct, nm, target)
      [] ct.kind = "EnumCodeType" -> EnumCodeType_render(ct, "write", nm \o ", " \o target)
      [] ct.kind = "FallbackCodeType" -> FallbackCodeType_render(ct, "write", nm \o ", " \o target)
lift(ct, nm) ==
    CASE ct.kind = "ObjectCodeType" -> ObjectCodeType_lift(ct, nm)
      [] ct.kind = "CallbackInterfaceCodeType" -> CallbackInterfaceCodeType_lift(ct, nm)
      [] ct.kind = "EnumCodeType" -> EnumCodeType_render(ct, "lift", nm)
      [] ct.kind = "FallbackCodeType" -> FallbackCodeType_render(ct, "lift", nm)
read(ct, nm) ==
    CASE ct.kind = "ObjectCodeType" -> ObjectCodeType_read(ct, nm)
      [] ct.kind = "CallbackInterfaceCodeType" -> CallbackInterfaceCodeType_read(ct, nm)
      [] ct.kind = "EnumCodeType" -> EnumCodeType_render(ct, "read", nm)
      [] ct.kind = "FallbackCodeType" -> FallbackCodeType_render(ct, "read", nm)
literal(ct, lit) ==
    CASE ct.kind = "ObjectCodeType" -> ObjectCodeType_literal(ct, lit)
      [] ct.kind = "CallbackInterfaceCodeType" -> CallbackInterfaceCodeType_literal(ct, lit)
      [] ct.kind = "EnumCodeType" -> Ok(EnumCodeType_render(ct, "literal", LiteralStr(lit)))
      [] ct.kind = "FallbackCodeType" -> Ok(FallbackCodeType_render(ct, "literal", LiteralStr(lit)))

-----------------------------------------------------------------------------
(* KotlinLanguageOracle: dispatch.                                         *)

create_code_type(type_) ==
    IF type_.tag = "Enum" THEN EnumCodeType_new(type_.id)
    ELSE FallbackCodeType_new(type_)

\* A lookup that knows no strategy for external types and fails on them.
find_failing_on_external(type_) ==
    IF type_.tag = "External" THEN Err("no code type for " \o TypeStr(type_))
    ELSE Ok(create_code_type(type_))

find(type_) == Ok(create_code_type(type_))

-----------------------------------------------------------------------------
(* Filters.                                                                *)

type_kt(type_) ==
    LET r == find(type_) IN
    IF r.kind = "Ok" THEN Ok(type_label(r.value)) ELSE r
lower_kt(nm, type_) ==
    LET r == find(type_) IN
    IF r.kind = "Ok" THEN Ok(lower(r.value, nm)) ELSE r
write_kt(nm, target, type_) ==
    LET r == find(type_) IN
    IF r.kind = "Ok" THEN Ok(write(r.value, nm, target)) ELSE r

\* lift_kt written from lower_kt, the operation not changed.
lift_kt_as_lower(nm, type_) ==
    LET r == find(type_) IN
    IF r.kind = "Ok" THEN Ok(lower(r.value, nm)) ELSE r

lift_kt(nm, type_) ==
    LET r == find(type_) IN
    IF r.kind = "Ok" THEN Ok(lift(r.value, nm)) ELSE r
read_kt(nm, type_) ==
    LET r == find(type_) IN
    IF r.kind = "Ok" THEN Ok(read(r.value, nm)) ELSE r

\* The type the literal is dispatched on, when it carries one.
literal_kt_type(lit) ==
    IF lit.tag \in {"Enum", "Int", "UInt", "Float"} THEN Some(lit.type_)
    ELSE NoneOpt

literal_kt(lit) ==
    LET type_ == literal_kt_type(lit) IN
    IF type_ = NoneOpt THEN legacy_kt_literal_kt(lit)
    ELSE LET r == find(type_[1]) IN
         IF r.kind = "Ok" THEN literal(r.value, lit) ELSE r

type_ffi(type_)        == Ok(ffi_type_label(type_))
class_name_kt(nm)      == Ok(class_name(nm))
fn_name_kt(nm)         == Ok(fn_name(nm))
var_name_kt(nm)        == Ok(var_name(nm))
enum_variant_kt(nm)    == Ok(enum_variant(nm))
exception_name_kt(nm)  == Ok(exception_name(nm))

-----------------------------------------------------------------------------
(* Config.                                                                 *)

Config(package, cdylib) == [package_name |-> package, cdylib_name |-> cdylib]

Config_package_name(self) ==
    IF self.package_name # NoneOpt THEN self.package_name[1] ELSE "uniffi"
Config_cdylib_name(self) ==
    IF self.cdylib_name # NoneOpt THEN self.cdylib_name[1] ELSE "uniffi"

Config_from(namespace) ==
    Config(Some("uniffi." \o namespace), Some("uniffi_" \o namespace))

\* MergeWith for Option: a value that is there wins over the other one.
Option_merge_with(self, other) == IF self # NoneOpt THEN self ELSE other

\* Both fields merged from the package name.
Config_merge_with_package_only(self, other) ==
    Config(Option_merge_with(self.package_name, other.package_name),
           Option_merge_with(self.package_name, other.cdylib_name))

Config_merge_with(self, other) ==
    Config(Option_merge_with(self.package_name, other.package_name),
           Option_merge_with(self.cdylib_name, other.cdylib_name))

\* The configuration of a run: the overrides merged over the defaults
\* derived from the component.
resolve_config(overrides, namespace) ==
    Config_merge_with(overrides, Config_from(namespace))

-----------------------------------------------------------------------------
(* Member declarations.                                                    *)

KotlinObject_new(name)            == [kind |-> "KotlinObject", name |-> name]
KotlinCallbackInterface_new(name) == [kind |-> "KotlinCallbackInterface", name |-> name]

KotlinObject_type_identifier(self) == [tag |-> "Object", id |-> self.name]
KotlinCallbackInterface_type_identifier(self) ==
    [tag |-> "CallbackInterface", id |-> self.name]

\* The statement registers the interface's class, not its internals object.
KotlinCallbackInterface_initialization_code_of_class(self) ==
    LET code_type == CallbackInterfaceCodeType_new(self.name) IN
    Some(CallbackInterfaceCodeType_type_label(code_type) \o ".register(lib)")

KotlinCallbackInterface_initialization_code(self) ==
    LET code_type == CallbackInterfaceCodeType_new(self.name) IN
    Some(CallbackInterfaceCodeType_internals(code_type) \o ".register(lib)")

KotlinCallbackInterface_import_code(self) ==
    Some(<<"java.util.concurrent.locks.ReentrantLock", "kotlin.concurrent.withLock">>)

\* MemberDeclaration's default: a declaration has no initialization code.
MemberDeclaration_initialization_code(self) == NoneOpt

initialization_code(decl) ==
    IF decl.kind = "KotlinCallbackInterface"
      THEN KotlinCallbackInterface_initialization_code(decl)
      ELSE MemberDeclaration_initialization_code(decl)

-----------------------------------------------------------------------------
(* Specifications.                                                         *)

MaxPieces == 2

NamePieces == {"Foo", "Error", "Err", "or", "Exception", "_my"}

RECURSIVE NamesUpTo(_)
\* The names made of at most n pieces.
NamesUpTo(n) ==
    IF n = 0 THEN {""}
    ELSE LET shorter == NamesUpTo(n - 1) IN
         shorter \cup {s \o p : s \in shorter, p \in NamePieces}

Names       == NamesUpTo(MaxPieces) \cup Idents \cup ValueNames
OracleNames == {"my_value", "FooBar"}

Namespaces     == {"geo", "my_lib"}
OverrideValues == {"custom.ns", "geo", "uniffi.geo"}
Options        == {NoneOpt} \cup {Some(v) : v \in OverrideValues}
Overrides      == {Config(p, c) : p \in Options, c \in Options}

Declarations ==
    {KotlinObject_new(n) : n \in Idents}
    \cup {KotlinCallbackInterface_new(n) : n \in Idents}
NonLiteralCodeTypes ==
    {ObjectCodeType_new(n) : n \in Idents}
    \cup {CallbackInterfaceCodeType_new(n) : n \in Idents}

NoCall == [op |-> "none"]

InitOracleVars == finds = <<>>
InitCallVars ==
    /\ call = NoCall
    /\ result = Ok("")
    /\ found = NoneOpt

\* The rendered output of a strategy for one choice of arguments.
Rendered(ct, nm, target) ==
    [type_label |-> type_label(ct), lower |-> lower(ct, nm),
     write |-> write(ct, nm, target), lift |-> lift(ct, nm),
     read |-> read(ct, nm)]
NothingRendered ==
    [type_label |-> "", lower |-> "", write |-> "", lift |-> "", read |-> ""]

\* What one oracle lookup and the rendering of the strategy's operations
\* give.
Lookedup(type_, nm, target) ==
    LET res == find(type_) IN
    [type_ |-> type_, nm |-> nm, target |-> target, res |-> res,
     out |-> IF res.kind = "Ok" THEN Rendered(res.value, nm, target)
             ELSE NothingRendered]

\* A lookup of the generation pass.
Find(type_, nm, target) ==
    /\ finds = <<>>
    /\ finds' = <<Lookedup(type_, nm, target)>>
    /\ UNCHANGED <<handleVars, tableVars, callVars>>

\* The pass meets an identifier equal to the one it looked up last, and
\* looks it up again.
FindAgain(nm, target) ==
    /\ Len(finds) = 1
    /\ finds' = <<finds[1], Lookedup(finds[1].type_, nm, target)>>
    /\ UNCHANGED <<handleVars, tableVars, callVars>>

\* Template expansion takes the text a filter returned and goes on.
Consume ==
    /\ call # NoCall
    /\ call' = NoCall
    /\ result' = Ok("")
    /\ found' = NoneOpt
    /\ UNCHANGED <<handleVars, tableVars, oracleVars>>

\* The generator is single-threaded: one call at a time.
Returns(c, r, f) ==
    /\ call = NoCall
    /\ call' = c
    /\ result' = r
    /\ found' = f
    /\ UNCHANGED <<handleVars, tableVars, oracleVars>>

CallTypeKt(type_) ==
    Returns([op |-> "type_kt", type_ |-> type_],
            type_kt(type_), Some(find(type_)))
CallLowerKt(nm, type_) ==
    Returns([op |-> "lower_kt", nm |-> nm, type_ |-> type_],
            lower_kt(nm, type_), Some(find(type_)))
CallWriteKt(nm, target, type_) ==
    Returns([op |-> "write_kt", nm |-> nm, target |-> target, type_ |-> type_],
            write_kt(nm, target, type_), Some(find(type_)))
CallLiftKt(nm, type_) ==
    Returns([op |-> "lift_kt", nm |-> nm, type_ |-> type_],
            lift_kt(nm, type_), Some(find(type_)))
CallReadKt(nm, type_) ==
    Returns([op |-> "read_kt", nm |-> nm, type_ |-> type_],
            read_kt(nm, type_), Some(find(type_)))
CallLiteralKt(lit) ==
    Returns([op |-> "literal_kt", lit |-> lit], literal_kt(lit),
            IF literal_kt_type(lit) = NoneOpt THEN NoneOpt
            ELSE Some(find(literal_kt_type(lit)[1])))
CallTypeFfi(ffi_type) ==
    Returns([op |-> "type_ffi", ffi_type |-> ffi_type], type_ffi(ffi_type), NoneOpt)
CallClassNameKt(nm) ==
    Returns([op |-> "class_name_kt", nm |-> nm], class_name_kt(nm), NoneOpt)
CallFnNameKt(nm) ==
    Returns([op |-> "fn_name_kt", nm |-> nm], fn_name_kt(nm), NoneOpt)
CallVarNameKt(nm) ==
    Returns([op |-> "var_name_kt", nm |-> nm], var_name_kt(nm), NoneOpt)
CallEnumVariantKt(nm) ==
    Returns([op |-> "enum_variant_kt", nm |-> nm], enum_variant_kt(nm), NoneOpt)
CallExceptionNameKt(nm) ==
    Returns([op |-> "exception_name_kt", nm |-> nm], exception_name_kt(nm), NoneOpt)
CallResolveConfig(overrides, namespace) ==
    Returns([op |-> "resolve_config", overrides |-> overrides,
             namespace |-> namespace],
            resolve_config(overrides, namespace), NoneOpt)
CallLiteral(ct, lit) ==
    Returns([op |-> "literal", ct |-> ct, lit |-> lit], literal(ct, lit), NoneOpt)
CallInitializationCode(decl) ==
    Returns([op |-> "initialization_code", decl |-> decl],
            initialization_code(decl), NoneOpt)

InitAll == InitHandleVars /\ InitTableVars /\ InitOracleVars /\ InitCallVars
InitHandle == InitAll
NextHandle ==
    \E h \in Handles, t \in Triggers :
        \/ Fire(h, t) /\ UNCHANGED <<tableVars, oracleVars, callVars>>
        \/ CompareAndSet(h, t) /\ UNCHANGED <<tableVars, oracleVars, callVars>>
        \/ NativeDestroy(h, t) /\ UNCHANGED <<tableVars, oracleVars, callVars>>
SpecHandle == InitHandle /\ [][NextHandle]_vars

InitTable == InitAll
NextTable ==
    \E t \in Threads :
        \/ \E op \in AppOps \cup NativeOps :
             Begin(t, op) /\ UNCHANGED <<handleVars, oracleVars, callVars>>
        \/ Acquire(t) /\ UNCHANGED <<handleVars, oracleVars, callVars>>
        \/ UpdateRead(t) /\ UNCHANGED <<handleVars, oracleVars, callVars>>
        \/ RegisterReserve(t) /\ UNCHANGED <<handleVars, oracleVars, callVars>>
        \/ UpdateStore(t) /\ UNCHANGED <<handleVars, oracleVars, callVars>>
        \/ Lookup(t) /\ UNCHANGED <<handleVars, oracleVars, callVars>>
        \/ Release(t) /\ UNCHANGED <<handleVars, oracleVars, callVars>>
SpecTable == InitTable /\ [][NextTable]_vars

InitOracle == InitAll
\* The pass goes on to another identifier.
Forget ==
    /\ finds # <<>>
    /\ finds' = <<>>
    /\ UNCHANGED <<handleVars, tableVars, callVars>>

NextOracle ==
    \/ \E nm \in OracleNames, target \in Targets, type_ \in Types :
         Find(type_, nm, target)
    \/ \E nm \in OracleNames, target \in Targets : FindAgain(nm, target)
    \/ Forget
SpecOracle == InitOracle /\ [][NextOracle]_vars

Init == InitAll
Next ==
    \/ \E type_ \in Types : CallTypeKt(type_)
    \/ \E nm \in ValueNames, type_ \in Types : CallLowerKt(nm, type_)
    \/ \E nm \in ValueNames, target \in Targets, type_ \in Types :
         CallWriteKt(nm, target, type_)
    \/ \E nm \in ValueNames, type_ \in Types : CallLiftKt(nm, type_)
    \/ \E nm \in ValueNames, type_ \in Types : CallReadKt(nm, type_)
    \/ \E lit \in Literals : CallLiteralKt(lit)
    \/ \E ffi_type \in FFITypes : CallTypeFfi(ffi_type)
    \/ \E nm \in Names : CallClassNameKt(nm)
    \/ \E nm \in Names : CallFnNameKt(nm)
    \/ \E nm \in Names : CallVarNameKt(nm)
    \/ \E nm \in Names : CallEnumVariantKt(nm)
    \/ \E nm \in Names : CallExceptionNameKt(nm)
    \/ \E overrides \in Overrides, namespace \in Namespaces :
         CallResolveConfig(overrides, namespace)
    \/ \E ct \in NonLiteralCodeTypes, lit \in Literals : CallLiteral(ct, lit)
    \/ \E decl \in Declarations : CallInitializationCode(decl)
    \/ Consume
Spec == Init /\ [][Next]_vars

-----------------------------------------------------------------------------
(* Properties.                                                             *)

\* C1: whatever the interleaving of the explicit-disposal trigger and the
\* automatic-reclamation trigger of a handle, each possibly firing more than
\* once, the native destroy operation is invoked at most once, only by the
\* trigger that changed the flag from false to true, and exactly once when
\* the triggers that fired have finished.
DestroyedExactlyOnce ==
    \A h \in Handles :
        /\ destroyCalls[h] <= 1
        /\ destroyers[h] \subseteq {winner[h]}
        /\ (destroyCalls[h] = 1 => wasDestroyed[h])
        /\ ( /\ \A t \in Triggers : hpc[h][t] = "idle"
             /\ \E t \in Triggers : fires[h][t] > 0
             => destroyCalls[h] = 1 )

\* Both triggers fired on one handle, the explicit one twice, the
\* reclamation won the race, and one destroy call was recorded.
BothTriggersFiredOneDestroy ==
    \E h \in Handles :
        /\ fires[h]["close"] >= 2
        /\ fires[h]["finalize"] >= 1
        /\ \A t \in Triggers : hpc[h][t] = "idle"
        /\ winner[h] = "finalize"
        /\ destroyCalls[h] = 1

\* C2: under the table's lock a lookup never observes a partially-completed
\* registration and returns the mapping left by the registrations and
\* deregistrations completed before it (so the newer implementation after a
\* re-registration), and when no operation is in progress the table holds
\* the effect of every completed operation: no registration is lost.
TableLinearizable ==
    /\ \A t \in NativeThreads :
         /\ lookups[t].got # Pending
         /\ lookups[t].got = lookups[t].want
    /\ ( (\A t \in Threads : tpc[t] \in {"idle", "acquire"})
         => table = applied )

\* A lookup returned the newer implementation of a re-registered identity
\* while another registration for that identity was waiting for the lock.
LookupSeesReRegistration ==
    \E t \in NativeThreads :
        /\ lookups[t].id \in Ids
        /\ lookups[t].got = "implB"
        /\ replaced[lookups[t].id] = "implA"
        /\ tpc[t] = "release"
        /\ \E a \in AppThreads :
             /\ tpc[a] = "acquire"
             /\ top[a].kind = "register"
             /\ top[a].id = lookups[t].id

\* The strategy kind the contract gives each type variant.
DedicatedKind(type_) ==
    CASE type_.tag = "Enum" -> "EnumCodeType"
      [] type_.tag = "Object" -> "ObjectCodeType"
      [] type_.tag = "CallbackInterface" -> "CallbackInterfaceCodeType"
      [] OTHER -> "FallbackCodeType"

\* C3: a lookup resolves an enumeration, an object and a callback interface
\* each to its own dedicated strategy, and only the other variants to the
\* fallback strategy.
FindGivesDedicatedStrategies ==
    \A i \in 1..Len(finds) :
        /\ finds[i].res.kind = "Ok"
        /\ finds[i].res.value.kind = DedicatedKind(finds[i].type_)

CodeTypes ==
    {EnumCodeType_new(n) : n \in Idents}
    \cup {ObjectCodeType_new(n) : n \in Idents}
    \cup {CallbackInterfaceCodeType_new(n) : n \in Idents}
    \cup {FallbackCodeType_new(t) : t \in Types}

ConfigResolution ==
    call.op = "resolve_config" =>
      LET o == call.overrides
          ns == call.namespace
      IN  /\ Config_package_name(result) =
               IF o.package_name # NoneOpt THEN o.package_name[1]
               ELSE "uniffi." \o ns
          /\ Config_cdylib_name(result) =
               IF o.cdylib_name # NoneOpt THEN o.cdylib_name[1]
               ELSE "uniffi_" \o ns
          /\ \A other \in Options :
               /\ Config_package_name(
                    resolve_config(Config(o.package_name, other), ns))
                  = Config_package_name(result)
               /\ Config_cdylib_name(
                    resolve_config(Config(other, o.cdylib_name), ns))
                  = Config_cdylib_name(result)

\* Only the namespace is overridden: the link name keeps its default.
NamespaceOverriddenAlone ==
    /\ call.op = "resolve_config"
    /\ call.namespace = "geo"
    /\ call.overrides = Config(Some("custom.ns"), NoneOpt)
    /\ Config_package_name(result) = "custom.ns"
    /\ Config_cdylib_name(result) = "uniffi_geo"

\* C6: the exception-name transform replaces exactly one trailing "Error"
\* by "Exception" and returns every other name unchanged, and applying it
\* to its own result changes nothing.
ExceptionNameTransform ==
    call.op = "exception_name_kt" =>
      LET nm == call.nm IN
      /\ result.kind = "Ok"
      /\ ( EndsWith(nm, "Error") =>
             result.value = SubSeq(nm, 1, Len(nm) - 5) \o "Exception" )
      /\ ( ~EndsWith(nm, "Error") => result.value = nm )
      /\ ( nm = "FooError" => result.value = "FooException" )
      /\ ( nm = "Foo" => result.value = "Foo" )
      /\ exception_name(result.value) = result.value

\* A name that ends in two "Error"s lost only the last one.
OneTrailingErrorReplaced ==
    /\ call.op = "exception_name_kt"
    /\ call.nm = "ErrorError"
    /\ result = Ok("ErrorException")

IntegerWidths == {"8", "16", "32", "64"}

\* C7: every wire type has a label; the unsigned and the signed integer
\* wire type of one width have the same label, and integer wire types of
\* different widths have different labels.
ScalarLabels ==
    call.op = "type_ffi" =>
      /\ result.kind = "Ok"
      /\ Len(result.value) > 0
      /\ \A w \in IntegerWidths :
           call.ffi_type \in {"Int" \o w, "UInt" \o w} =>
             /\ result.value = ffi_type_label("Int" \o w)
             /\ result.value = ffi_type_label("UInt" \o w)
             /\ \A v \in IntegerWidths \ {w} :
                  /\ result.value # ffi_type_label("Int" \o v)
                  /\ result.value # ffi_type_label("UInt" \o v)

\* The unsigned 8-bit wire type got the label of the signed one.
UnsignedByteLabelled ==
    /\ call.op = "type_ffi"
    /\ call.ffi_type = "UInt8"
    /\ result = Ok("Byte")

\* C8: the literal operation of the object strategy and of the
\* callback-interface strategy never returns text nor an error value: it
\* ends in the unreachable state, whatever the literal.
LiteralOfNonLiteralTypeUnreachable ==
    ( /\ call.op = "literal"
      /\ call.ct.kind \in {"ObjectCodeType", "CallbackInterfaceCodeType"} )
    => result.kind = "Unreachable"

\* The object strategy was asked for an enum literal.
ObjectLiteralRequested ==
    /\ call.op = "literal"
    /\ call.ct.kind = "ObjectCodeType"
    /\ call.lit.tag = "Enum"
    /\ result.kind = "Unreachable"

\* What the filters other than the literal filter have to return: the text
\* of the same-named operation of the strategy the oracle finds for the
\* type, or of the oracle's transform.
OtherFiltersDelegate ==
    /\ call.op \in {"type_kt", "lower_kt", "write_kt", "lift_kt", "read_kt"} =>
         /\ found = Some(find(call.type_))
         /\ found[1].kind = "Ok"
         /\ result =
              Ok(CASE call.op = "type_kt" -> type_label(found[1].value)
                   [] call.op = "lower_kt" -> lower(found[1].value, call.nm)
                   [] call.op = "write_kt" ->
                        write(found[1].value, call.nm, call.target)
                   [] call.op = "lift_kt" -> lift(found[1].value, call.nm)
                   [] call.op = "read_kt" -> read(found[1].value, call.nm))
    /\ (call.op = "type_ffi" => result = Ok(ffi_type_label(call.ffi_type)))
    /\ (call.op = "class_name_kt" => result = Ok(class_name(call.nm)))
    /\ (call.op = "fn_name_kt" => result = Ok(fn_name(call.nm)))
    /\ (call.op = "var_name_kt" => result = Ok(var_name(call.nm)))
    /\ (call.op = "enum_variant_kt" => result = Ok(enum_variant(call.nm)))
    /\ (call.op = "exception_name_kt" => result = Ok(exception_name(call.nm)))

RegistrationOnInternalsObject ==
    call.op = "initialization_code" =>
      IF call.decl.kind = "KotlinCallbackInterface"
        THEN LET ct == CallbackInterfaceCodeType_new(call.decl.name)
                 internals == "CallbackInterface" \o class_name(call.decl.name)
                              \o "Internals"
             IN  /\ Len(result) = 1
                 /\ result[1] = internals \o ".register(lib)"
                 /\ \A nm \in ValueNames, target \in Targets :
                      /\ StartsWith(lower(ct, nm), internals \o ".lower(")
                      /\ StartsWith(write(ct, nm, target), internals \o ".write(")
                      /\ StartsWith(lift(ct, nm), internals \o ".lift(")
                      /\ StartsWith(read(ct, nm), internals \o ".read(")
        ELSE result = NoneOpt

\* The registration statement of the callback interface HTTPServer.
HttpServerRegistered ==
    /\ call.op = "initialization_code"
    /\ call.decl = KotlinCallbackInterface_new("HTTPServer")
    /\ result = Some("CallbackInterfaceHttpServerInternals.register(lib)")

====
